---- MODULE Spec2Model ----
(***************************************************************************)
(* The Python bindings of cliodb (src/clio.py, src/logos.py, src/load.py)  *)
(* as a state machine.  The client objects (ClioDB / Logos, Db, Query) are *)
(* translated from the bindings; the native engine behind the five         *)
(* primitive calls (connect, get_db, transact, query, close / drop_db) is  *)
(* not part of the Python sources and is modelled from the specification's *)
(* interface table: every call returns a signed status, negative = failure.*)
(***************************************************************************)
EXTENDS Integers, Sequences, FiniteSets, TLC

\* ------------------------------------------------------------------ bounds
MaxConns == 2
MaxDbs == 2
MaxCloseCalls == 2
\* The number of client calls a behaviour makes.
MaxSteps == 6
\* Query objects, threads, and Query.run executions followed step by step.
MaxQueries == 2
MaxThreads == 2
MaxRuns == 2

Conns == 1..MaxConns
DbIds == 1..MaxDbs
Queries == 1..MaxQueries
Threads == 1..MaxThreads

\* ------------------------------------------------------- the ValueTag enum
VAL_ENTITY == 0
VAL_IDENT == 1
VAL_STRING == 2
VAL_TIMESTAMP == 3

\* What CValue.value() returns when no branch returns: Python's None.
None == "None"

\* A CValue structure: tag, string_val, int_val.
CValue(tag, s, i) == [tag |-> tag, string_val |-> s, int_val |-> i]

\* CValue.value(): the tag selects the field; any other tag falls into the
\* `else: pass` branch and the method returns None.
value(cv) ==
    IF cv.tag = VAL_ENTITY THEN cv.int_val
    ELSE IF cv.tag = VAL_IDENT THEN cv.string_val
    ELSE IF cv.tag = VAL_STRING THEN cv.string_val
    ELSE IF cv.tag = VAL_TIMESTAMP THEN cv.string_val
    ELSE None

\* A row_cb whose loop stops one column early.
row_cbShort(row_ptr) == [i \in 1..(Len(row_ptr) - 1) |-> value(row_ptr[i])]

\* row_cb: one decoded entry per column, appended in column order.
row_cb(row_ptr) == [i \in 1..Len(row_ptr) |-> value(row_ptr[i])]

\* Query.run's accumulation: self.results starts empty and row_cb appends
\* one decoded row per callback invocation, in delivery order.
Accumulate(delivered) == [k \in 1..Len(delivered) |-> row_cb(delivered[k])]

\* ----------------------------------------------------- transaction texts
\* A literal `{attr val}` of the transaction language; val is a quoted
\* string or a bare token.
Lit(a, v, q) == [attr |-> a, val |-> v, quoted |-> q]

\* load.py: the declaration `{db:ident word}` followed by one `{word "w"}`
\* literal per word of the input file.
load(words) ==
    <<Lit("db:ident", "word", FALSE)>>
        \o [i \in 1..Len(words) |-> Lit("word", words[i], TRUE)]

\* The transaction texts the model submits: the loader's output for two
\* words, one assertion of a value kind outside the four tags, the empty
\* body, and a text the engine cannot parse.
TxWords == load(<<"apple", "banana">>)
TxOther == <<Lit("word", "42", FALSE)>>
TxEmpty == <<>>
TxMalformed == <<Lit("word", "}", FALSE)>>
TxTexts == {TxWords, TxOther, TxEmpty, TxMalformed}

\* The query texts: `find ?v where (?e word ?v)`, one output variable, and
\* `find ?e ?v where (?e word ?v)`, two.
QueryWord == "find ?v where (?e word ?v)"
QueryPair == "find ?e ?v where (?e word ?v)"

\* The endpoint URIs handed to the constructors: Python's None, the empty
\* string, a malformed URI and a well-formed one.
NoneUri == "<None>"
URIs == {NoneUri, "", "mem//", "cliodb:mem://test"}

\* Python truthiness of a URI argument: `not uri` holds for None and "".
Falsy(uri) == uri \in {NoneUri, ""}

\* ---------------------------------------------------------------- engine
\* The native engine, from the interface table: what each primitive call
\* can answer.  An answer is a signed status, 0 (success) or -1 (failure),
\* or the process dying inside the call (a released or NULL handle
\* dereferenced).
OK == 0
FAIL == 0 - 1
Ret(st) == [status |-> st, crashed |-> FALSE]
Crash == [status |-> OK, crashed |-> TRUE]

\* The value a `word` literal asserts, as the engine hands it back through
\* the row callback: a quoted literal is a String; a bare number is a kind
\* of value outside the four tags of the binding's enum.
FactOf(lit) ==
    IF lit.quoted THEN CValue(VAL_STRING, lit.val, 0) ELSE CValue(4, "", 42)

Parses(tx) == \A i \in 1..Len(tx) : tx[i].val # "}"

Facts(tx) == {FactOf(tx[i]) : i \in {j \in 1..Len(tx) : tx[j].attr = "word"}}

\* connect: a handle only for a well-formed URI pair, and then only when
\* the endpoint is reachable.
EngineConnect(uris) ==
    IF \A i \in 1..Len(uris) : uris[i] = "cliodb:mem://test"
    THEN {Ret(OK), Ret(FAIL)} ELSE {Ret(FAIL)}

\* What a call on a connection handle in state hs can answer: an open handle
\* succeeds or fails; a closed (released) handle is a dangling pointer, which
\* fails, crashes, or still works; NULL fails or crashes.
EngineOnConn(hs) ==
    CASE hs = "open" -> {Ret(OK), Ret(FAIL)}
      [] hs = "closed" -> {Ret(OK), Ret(FAIL), Crash}
      [] OTHER -> {Ret(FAIL), Crash}

\* get_db: a snapshot of the store as of the call; it fails only on a
\* connection that is not open.
EngineGetDb(hs) == IF hs = "open" THEN {Ret(OK)} ELSE EngineOnConn(hs)

\* close: releases an open handle; a second close of the same handle, or a
\* close of NULL, fails or crashes.
EngineClose(hs) == IF hs = "open" THEN {Ret(OK)} ELSE {Ret(FAIL), Crash}

\* transact: a text that does not parse is refused; one that parses commits
\* all of its facts or (assertion conflict) none.  An empty body asserts
\* nothing, so nothing can conflict: on an open connection it succeeds.
EngineTransact(hs, tx) ==
    IF ~Parses(tx) THEN EngineOnConn(hs) \ {Ret(OK)}
    ELSE IF Len(tx) = 0 /\ hs = "open" THEN {Ret(OK)}
    ELSE EngineOnConn(hs)

\* The store after the engine committed tx.
Commit(st, tx) == st \cup Facts(tx)

\* Every sequence of distinct elements of set S (all lengths).
RECURSIVE Arrangements(_)
Arrangements(S) ==
    {<<>>} \cup UNION {{<<x>> \o t : t \in Arrangements(S \ {x})} : x \in S}

\* query: the rows of the snapshot, one column each, in an order the engine
\* chooses.  A successful scan delivers every row; a scan that faults stops
\* after any number of rows.  With the connection's resources or the
\* snapshot handle itself released (ownerClosed) the scan may also crash.
EngineQuery(snap, ownerClosed) ==
    {[status |-> IF Len(a) = Cardinality(snap) THEN st ELSE FAIL,
      crashed |-> FALSE,
      rows |-> [k \in 1..Len(a) |-> <<a[k]>>]] :
        a \in Arrangements(snap), st \in {OK, FAIL}}
    \cup (IF ownerClosed
          THEN {[status |-> OK, crashed |-> TRUE, rows |-> <<>>]} ELSE {})

\* drop_db: releases the snapshot handle; with the connection's resources
\* or the handle itself already released (ownerClosed) it may crash.
EngineDropDb(ownerClosed) == {Ret(OK)} \cup (IF ownerClosed THEN {Crash} ELSE {})

\* ----------------------------------------------------------------- state
VARIABLES
    conns,    \* the ClioDB / Logos objects: obj, conn_ptr, closes (close() calls)
    engConn,  \* engine: the state of each connection handle
    store,    \* engine: the committed facts of the one store
    dbs,      \* the Db objects: obj, db_ptr, and the connection that made it
    engDb,    \* engine: each snapshot handle's state, snapshot and drop count
    okTx,     \* the transaction texts whose transact() returned normally
    steps,    \* client calls made so far
    last,     \* the last client call: what it issued and how it ended
    codec,    \* a pair of values on their way through the tagged codec
    heap,     \* the Python list objects that runs created, by identity
    self_results, \* each Query object's self.results: a list of heap, 0 if unset
    thr,      \* each thread's position inside Query.run
    done      \* the runs that have returned, in order of return

\* The client's calls as whole steps, and what they leave alone.
main == <<conns, engConn, store, dbs, engDb, okTx, steps, last>>
aux == <<codec, heap, self_results, thr, done>>

vars == <<conns, engConn, store, dbs, engDb, okTx, steps, last,
          codec, heap, self_results, thr, done>>

NoConn == [obj |-> "none", conn_ptr |-> 0, closes |-> 0]
NoDb == [obj |-> "none", db_ptr |-> 0, conn |-> 0, okAtAcq |-> {}]
NoEngDb == [st |-> "free", snap |-> {}, drops |-> 0]

\* The record of a client call.  handle: the native handle passed; calls:
\* native calls issued; stale: close() had been called on the connection
\* (for a Db: on the connection that produced it) before this call.
Call(op, c, d, arg, h, calls, ret, raised, stale, delivered, results) ==
    [op |-> op, conn |-> c, db |-> d, arg |-> arg, handle |-> h,
     calls |-> calls, status |-> ret.status, crashed |-> ret.crashed,
     raised |-> raised, stale |-> stale,
     delivered |-> delivered, results |-> results]

\* No value is in the codec.
NoCodec == [phase |-> "idle"]

\* The program before any connection is made.
Fresh ==
    /\ conns = [c \in Conns |-> NoConn]
    /\ engConn = [c \in Conns |-> "free"]
    /\ store = {}
    /\ dbs = [d \in DbIds |-> NoDb]
    /\ engDb = [d \in DbIds |-> NoEngDb]
    /\ okTx = {}
    /\ steps = 0
    /\ last = Call("init", 0, 0, <<>>, 0, 0, Ret(OK), "none", FALSE, <<>>, <<>>)

\* A thread outside Query.run.
Idle == [pc |-> "idle", q |-> 0, d |-> 0, todo |-> <<>>, delivered |-> <<>>,
         status |-> OK]

\* No Query has run.
NoRuns ==
    /\ heap = <<>>
    /\ self_results = [q \in Queries |-> 0]
    /\ thr = [t \in Threads |-> Idle]
    /\ done = <<>>

Init ==
    /\ Fresh
    /\ codec = NoCodec
    /\ NoRuns

\* The process is running: no native call has crashed it.
Alive == ~last.crashed

\* One more client call, within the budget of calls.
Tick == steps < MaxSteps /\ steps' = steps + 1

\* The engine's state of the handle a conn_ptr holds (0 is NULL).
HandleState(ptr) == IF ptr = 0 THEN "null" ELSE engConn[ptr]

\* The status test with the sign turned round.
RaisesOnPositive(err) == err > 0

\* The status test taking zero for a failure too.
RaisesOnZero(err) == err <= 0

\* The status test of db() and transact(): `if err < 0: raise`.
Raises(err) == err < 0

\* -------------------------------------------------------------- actions
\* logos.py is the same binding under its earlier name: its Db, db(),
\* transact(), close() and Query are those of clio.py line for line, and
\* only its constructor differs (one URI, no test of the argument).
\* A conn_ptr kept in one place shared by every connection object (a class
\* or module attribute) instead of on the instance.
ConnPtrShared(c) == conns[1].conn_ptr

\* self.conn_ptr: the handle a connection object holds, an attribute of the
\* instance.
ConnPtr(c) == conns[c].conn_ptr

\* The slot the next connection object takes (0: none left).
FreeConn == {c \in Conns : conns[c].obj = "none"}
NextConn == IF FreeConn = {} THEN 0 ELSE CHOOSE c \in FreeConn : \A b \in FreeConn : c <= b

\* ClioDB.__init__(store_uri, tx_uri): both URIs must be truthy; then a NULL
\* conn_ptr is handed to the native connect by reference.  The status the
\* call returns is not read: the object is constructed whatever it was.
ClioDBInit(c, store_uri, tx_uri) ==
    /\ Alive
    /\ Tick
    /\ UNCHANGED aux
    /\ c = NextConn
    /\ IF Falsy(store_uri) \/ Falsy(tx_uri)
       THEN /\ last' = Call("connect", c, 0, <<store_uri, tx_uri>>, 0, 0,
                            Ret(OK), "Exception", FALSE, <<>>, <<>>)
            /\ UNCHANGED <<conns, engConn>>
       ELSE \E r \in EngineConnect(<<store_uri, tx_uri>>) :
            LET got == ~r.crashed /\ r.status = OK IN
            /\ conns' = [conns EXCEPT ![c] =
                   [obj |-> "live", conn_ptr |-> IF got THEN c ELSE 0,
                    closes |-> 0]]
            /\ engConn' = IF got THEN [engConn EXCEPT ![c] = "open"] ELSE engConn
            /\ last' = Call("connect", c, 0, <<store_uri, tx_uri>>, 0, 1,
                            r, "none", FALSE, <<>>, <<>>)
    /\ UNCHANGED <<store, dbs, engDb, okTx>>

\* Logos.__init__(uri): no test of the argument; uri.encode raises
\* AttributeError for None, and otherwise the native connect is called and
\* its status is not read.
LogosInit(c, uri) ==
    /\ Alive
    /\ Tick
    /\ UNCHANGED aux
    /\ c = NextConn
    /\ IF uri = NoneUri
       THEN /\ last' = Call("connect", c, 0, <<uri>>, 0, 0,
                            Ret(OK), "AttributeError", FALSE, <<>>, <<>>)
            /\ UNCHANGED <<conns, engConn>>
       ELSE \E r \in EngineConnect(<<uri>>) :
            LET got == ~r.crashed /\ r.status = OK IN
            /\ conns' = [conns EXCEPT ![c] =
                   [obj |-> "live", conn_ptr |-> IF got THEN c ELSE 0,
                    closes |-> 0]]
            /\ engConn' = IF got THEN [engConn EXCEPT ![c] = "open"] ELSE engConn
            /\ last' = Call("connect", c, 0, <<uri>>, 0, 1,
                            r, "none", FALSE, <<>>, <<>>)
    /\ UNCHANGED <<store, dbs, engDb, okTx>>

\* The slot the next Db object takes.
FreeDb == {d \in DbIds : dbs[d].obj = "none"}
NextDb == CHOOSE d \in FreeDb : \A e \in FreeDb : d <= e

\* ClioDB.db(): get_db on self.conn_ptr; a negative status raises, otherwise
\* a Db wrapping the new handle is returned.
db(c) ==
    /\ Alive
    /\ Tick
    /\ UNCHANGED aux
    /\ conns[c].obj = "live"
    /\ FreeDb # {}
    /\ LET h == ConnPtr(c)
           d == NextDb
           stale == conns[c].closes > 0
       IN \E r \in EngineGetDb(HandleState(h)) :
          IF r.crashed \/ Raises(r.status)
          THEN /\ last' = Call("db", c, 0, <<>>, h, 1, r,
                               IF r.crashed THEN "none" ELSE "Exception",
                               stale, <<>>, <<>>)
               /\ UNCHANGED <<dbs, engDb>>
          ELSE /\ dbs' = [dbs EXCEPT ![d] =
                     [obj |-> "live", db_ptr |-> d, conn |-> c, okAtAcq |-> okTx]]
               /\ engDb' = [engDb EXCEPT ![d] =
                     [st |-> "live",
                      snap |-> IF r.status = OK THEN store ELSE {},
                      drops |-> 0]]
               /\ last' = Call("db", c, d, <<>>, h, 1, r, "none", stale, <<>>, <<>>)
    /\ UNCHANGED <<conns, engConn, store, okTx>>

\* ClioDB.transact(tx_string): the text goes to the engine verbatim; a
\* negative status raises.
transact(c, tx) ==
    /\ Alive
    /\ Tick
    /\ UNCHANGED aux
    /\ conns[c].obj = "live"
    /\ LET h == ConnPtr(c)
           stale == conns[c].closes > 0
       IN \E r \in EngineTransact(HandleState(h), tx) :
          /\ store' = IF ~r.crashed /\ r.status = OK THEN Commit(store, tx) ELSE store
          /\ okTx' = IF r.crashed \/ Raises(r.status) THEN okTx ELSE okTx \cup {tx}
          /\ last' = Call("transact", c, 0, tx, h, 1, r,
                          IF ~r.crashed /\ Raises(r.status) THEN "Exception" ELSE "none",
                          stale, <<>>, <<>>)
    /\ UNCHANGED <<conns, engConn, dbs, engDb>>

\* ClioDB.close(): the native close on self.conn_ptr, status not read; the
\* object keeps its conn_ptr.
close(c) ==
    /\ Alive
    /\ Tick
    /\ UNCHANGED aux
    /\ conns[c].obj = "live"
    /\ conns[c].closes < MaxCloseCalls
    /\ LET h == ConnPtr(c)
       IN \E r \in EngineClose(HandleState(h)) :
          /\ engConn' = IF h # 0 /\ engConn[h] = "open"
                        THEN [engConn EXCEPT ![h] = "closed"] ELSE engConn
          /\ conns' = [conns EXCEPT ![c].closes = @ + 1]
          /\ last' = Call("close", c, 0, <<>>, h, 1, r, "none",
                          conns[c].closes > 0, <<>>, <<>>)
    /\ UNCHANGED <<store, dbs, engDb, okTx>>

\* Whether close() has been called on the connection that produced Db d.
OwnerClosed(d) == conns[dbs[d].conn].closes > 0

\* A run that queries the handle of the Db acquired last, not its argument's.
QueryHandleOfLatest(d) ==
    LET lv == {e \in DbIds : dbs[e].obj = "live"}
    IN dbs[CHOOSE e \in lv : \A f \in lv : f <= e].db_ptr

\* The handle Query.run passes to the native query: db.db_ptr.
QueryHandle(d) == dbs[d].db_ptr

\* Whether the engine has already released snapshot handle h (drop_db was
\* called on it through another Db object holding the same db_ptr).
Dropped(h) == engDb[h].st = "dropped"

\* Query.run(db): self.results = []; the engine calls row_cb once per row
\* inside the native query call; the status of the call is not read and
\* self.results is returned.
run(d) ==
    /\ Alive
    /\ Tick
    /\ UNCHANGED aux
    /\ dbs[d].obj = "live"
    /\ \E r \in EngineQuery(engDb[QueryHandle(d)].snap,
                            OwnerClosed(d) \/ Dropped(QueryHandle(d))) :
          last' = Call("run", dbs[d].conn, d, <<QueryWord>>, QueryHandle(d), 1,
                       [status |-> r.status, crashed |-> r.crashed], "none",
                       OwnerClosed(d), r.rows,
                       IF r.crashed THEN <<>> ELSE Accumulate(r.rows))
    /\ UNCHANGED <<conns, engConn, store, dbs, engDb, okTx>>

\* Db.__del__: the last reference to the Db goes away and drop_db is called
\* on its db_ptr.
DbDel(d) ==
    /\ Alive
    /\ Tick
    /\ UNCHANGED aux
    /\ dbs[d].obj = "live"
    /\ \E r \in EngineDropDb(OwnerClosed(d) \/ Dropped(dbs[d].db_ptr)) :
          /\ engDb' = [engDb EXCEPT ![dbs[d].db_ptr] =
                 [st |-> "dropped",
                  snap |-> IF \E e \in DbIds \ {d} :
                                 dbs[e].obj = "live" /\ dbs[e].db_ptr = dbs[d].db_ptr
                           THEN @.snap ELSE {},
                  drops |-> @.drops + 1]]
          /\ dbs' = [dbs EXCEPT ![d] = [NoDb EXCEPT !.obj = "deleted"]]
          /\ last' = Call("del", dbs[d].conn, d, <<>>, dbs[d].db_ptr, 1, r, "none",
                          OwnerClosed(d), <<>>, <<>>)
    /\ UNCHANGED <<conns, engConn, store, okTx>>

\* copy.copy(db): Db defines no __copy__, so the copy is a second Db object
\* holding the same db_ptr; no native call is made.
DbCopy(d) ==
    /\ Alive
    /\ Tick
    /\ UNCHANGED aux
    /\ dbs[d].obj = "live"
    /\ FreeDb # {}
    /\ dbs' = [dbs EXCEPT ![NextDb] = dbs[d]]
    /\ last' = Call("copy", dbs[d].conn, NextDb, <<>>, dbs[d].db_ptr, 0,
                    Ret(OK), "none", OwnerClosed(d), <<>>, <<>>)
    /\ UNCHANGED <<conns, engConn, store, engDb, okTx>>

Next ==
    \/ \E c \in Conns, s \in URIs, t \in URIs : ClioDBInit(c, s, t)
    \/ \E c \in Conns, u \in URIs : LogosInit(c, u)
    \/ \E c \in Conns : db(c)
    \/ \E c \in Conns, tx \in TxTexts : transact(c, tx)
    \/ \E c \in Conns : close(c)
    \/ \E d \in DbIds : run(d)
    \/ \E d \in DbIds : DbDel(d)
    \/ \E d \in DbIds : DbCopy(d)

Spec == Init /\ [][Next]_vars

\* ------------------------------------------------------- the tagged codec
\* A 64-bit quantity as four 16-bit limbs, most significant first.
Limb == 65536
Limbs == 1..4

\* A Python int: sign and magnitude.
PyInt(neg, mag) == [neg |-> neg, mag |-> mag]

\* l + 1 on four limbs, modulo 2^64.
AddOne(l) ==
    IF l[4] + 1 < Limb THEN <<l[1], l[2], l[3], l[4] + 1>>
    ELSE IF l[3] + 1 < Limb THEN <<l[1], l[2], l[3] + 1, 0>>
    ELSE IF l[2] + 1 < Limb THEN <<l[1], l[2] + 1, 0, 0>>
    ELSE <<(l[1] + 1) % Limb, 0, 0, 0>>

\* ("int_val", c_int64): the field is signed, so ctypes hands a bit pattern
\* with bit 63 set to Python as the negative number pattern - 2^64.
c_int64(bits) ==
    IF bits[1] >= Limb \div 2
    THEN PyInt(TRUE, AddOne([i \in Limbs |-> (Limb - 1) - bits[i]]))
    ELSE PyInt(FALSE, bits)

\* A value of one of the four kinds: an Entity is a 64-bit identifier, the
\* three others carry text.
Entity(id) == [kind |-> "Entity", id |-> id, text |-> ""]
Text(kind, text) == [kind |-> kind, id |-> <<0, 0, 0, 0>>, text |-> text]

\* The tag of each kind.
TagOf(kind) ==
    CASE kind = "Entity" -> VAL_ENTITY
      [] kind = "Ident" -> VAL_IDENT
      [] kind = "String" -> VAL_STRING
      [] kind = "Timestamp" -> VAL_TIMESTAMP

\* The CValue that carries v: the tag of its kind, and the payload in the
\* field of that kind (the other field is left zero / empty).
Encode(v) ==
    IF v.kind = "Entity"
    THEN CValue(TagOf(v.kind), "", c_int64(v.id))
    ELSE CValue(TagOf(v.kind), v.text, c_int64(<<0, 0, 0, 0>>))

\* The values sent through the codec: identifiers around both ends of the
\* signed and the unsigned range, and the same texts under each text kind.
EntityIds ==
    {<<0, 0, 0, 0>>, <<0, 0, 0, 1>>, <<0, 0, 1, 65535>>,
     <<32767, 65535, 65535, 65535>>, <<32768, 0, 0, 0>>,
     <<65535, 65535, 65535, 65535>>}
Texts == {"word", "2026-01-01T00:00:00Z"}
CodecValues ==
    {Entity(id) : id \in EntityIds}
        \cup {Text(k, t) : k \in {"Ident", "String", "Timestamp"}, t \in Texts}

\* Two values are chosen ...
InitCodec ==
    /\ Fresh
    /\ NoRuns
    /\ \E v \in CodecValues, w \in CodecValues :
          codec = [phase |-> "value", v |-> v, w |-> w]

\* ... each is encoded as a CValue ...
CodecEncode ==
    /\ codec.phase = "value"
    /\ codec' = [phase |-> "encoded", v |-> codec.v, w |-> codec.w,
                 cv |-> Encode(codec.v), cw |-> Encode(codec.w)]
    /\ UNCHANGED <<main, heap, self_results, thr, done>>

\* ... and each CValue is decoded with value().
CodecDecode ==
    /\ codec.phase = "encoded"
    /\ codec' = [phase |-> "decoded", v |-> codec.v, w |-> codec.w,
                 dv |-> value(codec.cv), dw |-> value(codec.cw)]
    /\ UNCHANGED <<main, heap, self_results, thr, done>>

NextCodec == CodecEncode \/ CodecDecode

SpecCodec == InitCodec /\ [][NextCodec]_vars

\* ------------------------------------------------ Query.run step by step
\* Query.__init__: the text each Query object was constructed with.
QueryText(q) == IF q % 2 = 1 THEN QueryWord ELSE QueryPair

\* The number of variables after `find` in a query text.
FindVars(text) == IF text = QueryWord THEN 1 ELSE 2

\* The entity a fact is asserted of.
EntityOf(f) ==
    IF f.tag # VAL_STRING THEN 3 ELSE IF f.string_val = "apple" THEN 1 ELSE 2

\* The row the engine hands to the callback for fact f: one CValue per find
\* variable.
EngineRow(text, f) ==
    IF text = QueryWord THEN <<f>>
    ELSE <<CValue(VAL_ENTITY, "", EntityOf(f)), f>>

\* query, for either text, on a live snapshot handle.
EngineQueryText(text, snap) ==
    {[status |-> r.status,
      rows |-> [k \in 1..Len(r.rows) |-> EngineRow(text, r.rows[k][1])]] :
        r \in EngineQuery(snap, FALSE)}

\* A program that has connected, asserted one value, taken a Db, loaded the
\* words and taken a second Db: the state after
\*   c = ClioDB(s, t); c.transact("{word 42}"); d1 = c.db();
\*   c.transact(words); d2 = c.db()
Loaded ==
    /\ conns = [c \in Conns |->
                   IF c = 1 THEN [obj |-> "live", conn_ptr |-> 1, closes |-> 0]
                   ELSE NoConn]
    /\ engConn = [c \in Conns |-> IF c = 1 THEN "open" ELSE "free"]
    /\ store = Commit(Commit({}, TxOther), TxWords)
    /\ dbs = [d \in DbIds |->
                 IF d = 1 THEN [obj |-> "live", db_ptr |-> 1, conn |-> 1,
                                okAtAcq |-> {TxOther}]
                 ELSE IF d = 2 THEN [obj |-> "live", db_ptr |-> 2, conn |-> 1,
                                     okAtAcq |-> {TxWords, TxOther}]
                 ELSE NoDb]
    /\ engDb = [d \in DbIds |->
                   IF d = 1 THEN [st |-> "live", snap |-> Commit({}, TxOther),
                                  drops |-> 0]
                   ELSE IF d = 2 THEN [st |-> "live", snap |-> store, drops |-> 0]
                   ELSE NoEngDb]
    /\ okTx = {TxWords, TxOther}
    /\ steps = 5
    /\ last = Call("db", 1, 2, <<>>, 1, 1, Ret(OK), "none", FALSE, <<>>, <<>>)

InitRuns ==
    /\ Loaded
    /\ codec = NoCodec
    /\ NoRuns

\* The runs begun so far.
Begun == Len(done) + Cardinality({t \in Threads : thr[t].pc # "idle"})

\* self.results rebound to the list the Query object already holds (the
\* list emptied in place), a new one only when it holds none.
ReusedList(q) == IF self_results[q] = 0 THEN Len(heap) + 1 ELSE self_results[q]

\* `self.results = []`: the list display makes a new list object.
NewList(q) == Len(heap) + 1

\* A row put in front of the list.
PrependRow(list, row) == <<row>> \o list

\* `self.results.append(row)`.
AppendRow(list, row) == Append(list, row)

\* Query.run up to the native call: self.results = [], and the engine
\* starts the scan of the snapshot behind db.db_ptr.
RunBegin(t, q, d) ==
    /\ thr[t].pc = "idle"
    /\ Begun < MaxRuns
    /\ dbs[d].obj = "live"
    /\ LET l == NewList(q) IN
       /\ heap' = IF l > Len(heap) THEN Append(heap, <<>>)
                  ELSE [heap EXCEPT ![l] = <<>>]
       /\ self_results' = [self_results EXCEPT ![q] = l]
    /\ \E r \in EngineQueryText(QueryText(q), engDb[QueryHandle(d)].snap) :
          thr' = [thr EXCEPT ![t] =
                     [pc |-> "query", q |-> q, d |-> d, todo |-> r.rows,
                      delivered |-> <<>>, status |-> r.status]]
    /\ UNCHANGED <<main, codec, done>>

\* The engine calls row_cb(num_cols, row_ptr) for its next row: the row is
\* decoded and appended to the list self.results names at that moment.
RowCb(t) ==
    /\ thr[t].pc = "query"
    /\ thr[t].todo # <<>>
    /\ LET row_ptr == Head(thr[t].todo) IN
       /\ heap' = [heap EXCEPT ![self_results[thr[t].q]] = AppendRow(@, row_cb(row_ptr))]
       /\ thr' = [thr EXCEPT ![t].todo = Tail(@),
                             ![t].delivered = Append(@, row_ptr)]
    /\ UNCHANGED <<main, codec, self_results, done>>

\* The native query call returns; its status is not read.
QueryReturns(t) ==
    /\ thr[t].pc = "query"
    /\ thr[t].todo = <<>>
    /\ thr' = [thr EXCEPT ![t].pc = "return"]
    /\ UNCHANGED <<main, codec, heap, self_results, done>>

\* `return self.results`: the caller gets the list self.results names now.
RunReturn(t) ==
    /\ thr[t].pc = "return"
    /\ done' = Append(done,
                 [t |-> t, q |-> thr[t].q, d |-> thr[t].d,
                  status |-> thr[t].status, delivered |-> thr[t].delivered,
                  list |-> self_results[thr[t].q], rows |-> heap[self_results[thr[t].q]]])
    /\ thr' = [thr EXCEPT ![t] = Idle]
    /\ UNCHANGED <<main, codec, heap, self_results>>

\* One thread: a run begins only when none is under way.
SeqBegin(q, d) ==
    /\ \A t \in Threads : thr[t].pc = "idle"
    /\ RunBegin(1, q, d)

NextSeq ==
    \/ \E q \in Queries, d \in DbIds : SeqBegin(q, d)
    \/ \E t \in Threads : RowCb(t)
    \/ \E t \in Threads : QueryReturns(t)
    \/ \E t \in Threads : RunReturn(t)

SpecSeq == InitRuns /\ [][NextSeq]_vars

\* Several threads: ctypes releases the interpreter lock around the native
\* call, so the steps of runs on different threads interleave.
NextThreads ==
    \/ \E t \in Threads, q \in Queries, d \in DbIds : RunBegin(t, q, d)
    \/ \E t \in Threads : RowCb(t)
    \/ \E t \in Threads : QueryReturns(t)
    \/ \E t \in Threads : RunReturn(t)

SpecThreads == InitRuns /\ [][NextThreads]_vars

\* ---------------------------------------------------------------- claims
\* The facts of a set of transaction texts.
FactsOf(txs) == UNION {Facts(tx) : tx \in txs}

\* The facts committed by the transact() calls that had returned normally
\* when Db d was acquired.
AcqFacts(d) == FactsOf(dbs[d].okAtAcq)

\* The decoded one-column rows of a set of facts.
RowsOf(F) == {row_cb(<<v>>) : v \in F}

\* The rows of the last call's returned list, as a set.
Observed == {last.results[k] : k \in 1..Len(last.results)}

KnownTags == {VAL_ENTITY, VAL_IDENT, VAL_STRING, VAL_TIMESTAMP}

\* The last call is a Query.run that returned to its caller.
Ran == last.op = "run" /\ ~last.crashed

\* C1: once close() has been called on a Connection, every later db(),
\* transact() or Query.run() on a Db obtained from it fails (the error is to
\* be UseAfterCloseError; any raised error is accepted here) and issues no
\* native call with the closed connection's handle.  Stated for connections
\* whose connect produced a handle.
C1_UseAfterClose ==
    (last.op \in {"db", "transact", "run"} /\ last.stale
     /\ conns[last.conn].conn_ptr # 0)
        => (last.raised # "none" /\ last.calls = 0)

\* C2: when the engine ends a query abnormally (negative status) after
\* delivering k >= 0 rows, Query.run raises one error and returns no rows.
C2_AllOrNothing ==
    (Ran /\ last.status < 0)
        => (last.raised # "none" /\ last.results = <<>>)

\* C3: a delivered row holding a value whose tag is none of the four known
\* tags makes the run fail (with ProtocolError; any raised error is accepted
\* here); no returned row holds an empty (None) entry in its place.
C3_UnknownTagFails ==
    (Ran /\ \E k \in 1..Len(last.delivered) :
                \E i \in 1..Len(last.delivered[k]) :
                    last.delivered[k][i].tag \notin KnownTags)
        => (last.raised # "none"
            /\ \A k \in 1..Len(last.results) :
                   \A i \in 1..Len(last.results[k]) : last.results[k][i] # None)

\* C4: snapshot isolation.  Every Query.run against a Db d returns only
\* rows of the store as it was when d was acquired, whatever was committed
\* since on any connection, and a scan the engine completed returns all of
\* them: what the run returns is what it could have returned at acquisition.
C4_SnapshotIsolation ==
    \A d \in DbIds :
        (Ran /\ last.db = d)
            => /\ Observed \subseteq RowsOf(AcqFacts(d))
               /\ Len(last.results) = Cardinality(Observed)
               /\ (last.status = OK => Observed = RowsOf(AcqFacts(d)))

\* C4 witness: a run against a Db returned rows while the store holds facts
\* committed after the Db was acquired.
C4_Witness ==
    /\ Ran
    /\ last.db # 0
    /\ last.status = OK
    /\ Len(last.results) > 0
    /\ store \ AcqFacts(last.db) # {}

\* C5: read-after-commit.  With the loader's transaction for "apple" and
\* "banana" committed (and no other assertion), a query for `word` against
\* a Db acquired afterwards yields exactly the rows ["apple"], ["banana"].
C5_ReadAfterCommit ==
    \A d \in DbIds :
        (Ran /\ last.db = d /\ TxWords \in dbs[d].okAtAcq
             /\ dbs[d].okAtAcq \subseteq {TxWords, TxEmpty})
            => Observed = {<<"apple">>, <<"banana">>}

\* C6: a transaction is atomic.  The store, and the snapshot of every Db,
\* hold exactly the facts of the transact() calls that had returned normally
\* (all of each one's assertions), and nothing of a call that raised.
C6_TransactAtomic ==
    /\ store = FactsOf(okTx)
    /\ \A d \in DbIds :
           dbs[d].obj = "live" => engDb[dbs[d].db_ptr].snap = AcqFacts(d)

\* C6 witness: a Db acquired after the loader's transaction committed shows
\* both of its facts, and a later well-formed transaction has just failed.
C6_Witness ==
    /\ last.op = "transact"
    /\ last.raised = "Exception"
    /\ Parses(last.arg)
    /\ Facts(last.arg) # {}
    /\ \E d \in DbIds :
           /\ dbs[d].obj = "live"
           /\ TxWords \in dbs[d].okAtAcq
           /\ Facts(TxWords) \subseteq engDb[dbs[d].db_ptr].snap

\* C7: connect fails (with ConnectionError; any raised error is accepted
\* here) whenever a URI is missing or malformed or the native connect returns
\* a negative status, hands out no connection object and leaves no handle
\* allocated; so no later call is issued on a handle connect never produced.
C7_ConnectFails ==
    /\ (last.op = "connect"
        /\ ((\E i \in 1..Len(last.arg) : last.arg[i] # "cliodb:mem://test")
            \/ (last.calls > 0 /\ last.status < 0)))
           => /\ last.raised # "none"
              /\ conns[last.conn].obj = "none"
              /\ engConn[last.conn] = "free"
    /\ last.op \in {"db", "transact", "close"} => last.handle # 0

\* C8: every fallible native call (connect, get_db, transact, query, close)
\* that returns a negative status makes the client operation raise, after
\* exactly one native call, and db() then returns no Db.
C8_StatusChecked ==
    (last.op \in {"connect", "db", "transact", "run", "close"}
     /\ last.calls > 0 /\ ~last.crashed /\ last.status < 0)
        => /\ last.raised # "none"
           /\ last.calls = 1
           /\ (last.op = "db" => last.db = 0)

\* C9: a second close() on a Connection reports an error, and the native
\* close is invoked at most once per connection handle.  Stated for
\* connections whose connect produced a handle.
C9_DoubleClose ==
    /\ (last.op = "close" /\ last.stale /\ last.handle # 0)
           => last.raised # "none"
    /\ \A c \in Conns : conns[c].conn_ptr # 0 => conns[c].closes <= 1

\* C10: a Db never outlives its Connection: no Db obtained from a closed
\* Connection is live, and no native query or drop_db is issued with a Db
\* handle after the close of the Connection that produced it.
C10_DbWithinConnection ==
    /\ \A d \in DbIds : dbs[d].obj = "live" => ~OwnerClosed(d)
    /\ (last.op \in {"run", "del"} /\ last.calls > 0) => ~last.stale

\* C13: an empty-bodied transaction on a freshly connected store (nothing
\* committed yet) returns without raising and leaves the store empty, so a
\* Db acquired after it shows the same (no) rows as one acquired before;
\* repeating it changes nothing.
C13_EmptyTransaction ==
    /\ (last.op = "transact" /\ Len(last.arg) = 0 /\ ~last.stale
        /\ last.handle # 0 /\ okTx \subseteq {TxEmpty})
           => /\ ~last.crashed
              /\ last.raised = "none"
              /\ TxEmpty \in okTx
              /\ store = {}
    /\ \A d \in DbIds :
           (dbs[d].obj = "live" /\ dbs[d].okAtAcq \subseteq {TxEmpty})
               => engDb[dbs[d].db_ptr].snap = {}

\* C13 witness: the empty transaction has just returned for the second time
\* on an open connection, with one Db acquired before the first and one
\* acquired after it.
C13_Witness ==
    /\ last.op = "transact" /\ Len(last.arg) = 0 /\ last.raised = "none"
    /\ ~last.stale /\ last.handle # 0
    /\ \E d, e \in DbIds :
           /\ dbs[d].obj = "live" /\ dbs[d].okAtAcq = {}
           /\ dbs[e].obj = "live" /\ dbs[e].okAtAcq = {TxEmpty}

\* The Db objects obtained from connection c, with what each holds.
DbsOf(c) == {[slot |-> d, rec |-> dbs[d]] : d \in {e \in DbIds : dbs[e].conn = c}}

\* C14: connections are independent on the client side.  A db(), transact()
\* or close() on connection A (failing or not) leaves every other connection
\* B's object and handle, the state of B's handle and the Db objects
\* obtained from B unchanged; so B stays usable after A is closed.
C14_Independent ==
    [][\A a, b \in Conns :
          (a # b /\ last'.conn = a /\ last'.op \in {"db", "transact", "close"})
              => /\ conns'[b] = conns[b]
                 /\ engConn'[b] = engConn[b]
                 /\ DbsOf(b)' = DbsOf(b)]_vars

\* C14 witness: connection 1 has been closed and a Db was then obtained from
\* connection 2, which is open.
C14_Witness ==
    /\ conns[1].closes > 0 /\ conns[1].conn_ptr # 0
    /\ last.op = "db" /\ last.conn = 2 /\ last.db # 0
    /\ engConn[2] = "open"

\* The Db objects that hold snapshot handle h.
Holders(h) == {d \in DbIds : dbs[d].obj = "live" /\ dbs[d].db_ptr = h}

\* C16: every snapshot handle db() acquired is passed to drop_db exactly
\* once: never twice (also when the Db object is copied), once when no Db
\* object holds it any more, and never while another Db object still holds
\* it; a handle get_db never handed out is never dropped.
C16_DropExactlyOnce ==
    \A h \in DbIds :
        /\ engDb[h].drops <= 1
        /\ engDb[h].st = "free" => engDb[h].drops = 0
        /\ (engDb[h].st # "free" /\ Holders(h) = {}) => engDb[h].drops = 1
        /\ Holders(h) # {} => engDb[h].drops = 0

\* What value() returned is v again: the identifier as a Python int for an
\* Entity, the text for the three text kinds.
GivesBack(v, d) ==
    IF v.kind = "Entity" THEN d = PyInt(FALSE, v.id) ELSE d = v.text

\* The Python type of what value() returns for a kind: int_val is an int,
\* string_val.decode() a str.
PyType(kind) == IF kind = "Entity" THEN "int" ELSE "str"

\* Two decoded results that a Python program cannot tell apart: of the same
\* type and equal.
Indistinguishable(v, d, w, e) == PyType(v.kind) = PyType(w.kind) /\ d = e

\* C12: the round trip through the tagged codec gives every value back, an
\* Entity identifier at or above 2^63 included, and keeps values of
\* different kinds (or of different payload) distinguishable.
C12_RoundTrip ==
    codec.phase = "decoded" =>
        /\ GivesBack(codec.v, codec.dv)
        /\ GivesBack(codec.w, codec.dw)
        /\ codec.v # codec.w
              => ~Indistinguishable(codec.v, codec.dv, codec.w, codec.dw)

\* C12, its two parts apart: the identifiers (the signed field), and the
\* kinds of equal text.
C12_EntityPart ==
    (codec.phase = "decoded" /\ codec.v.kind = "Entity")
        => GivesBack(codec.v, codec.dv)
C12_KindPart ==
    (codec.phase = "decoded" /\ codec.v.kind # codec.w.kind)
        => ~Indistinguishable(codec.v, codec.dv, codec.w, codec.dw)

\* C11: every row a run returned has as many columns as the query text has
\* variables after `find`, whatever the tags of the columns and however the
\* scan ended.
C11_RowWidth ==
    \A k \in 1..Len(done) :
        \A i \in 1..Len(done[k].rows) :
            Len(done[k].rows[i]) = FindVars(QueryText(done[k].q))

\* A two-variable query returned several rows, one of them with a column of
\* a tag outside the enum.
C11_Witness ==
    \E k \in 1..Len(done) :
        /\ FindVars(QueryText(done[k].q)) = 2
        /\ Len(done[k].rows) > 1
        /\ \E i \in 1..Len(done[k].rows) : done[k].rows[i][2] = None

\* C15: a run returns only once the engine's query call has delivered its
\* last row and returned, and a successful run returns the rows delivered to
\* its callback, each once, decoded, in delivery order.
C15_Lossless ==
    /\ \A t \in Threads : thr[t].pc = "return" => thr[t].todo = <<>>
    /\ \A k \in 1..Len(done) :
          done[k].status = OK
              => /\ done[k].rows = Accumulate(done[k].delivered)
                 /\ Len(done[k].rows) = Cardinality(engDb[dbs[done[k].d].db_ptr].snap)

\* A successful run returned the three rows of the second snapshot.
C15_Witness ==
    \E k \in 1..Len(done) :
        done[k].status = OK /\ done[k].d = 2 /\ Len(done[k].rows) = 3

\* C17: run after run of a Query object, each run returned the rows of its
\* own execution, and the list an earlier run returned still holds what it
\* held when it was returned.
C17_Rerunnable ==
    \A k \in 1..Len(done) :
        /\ done[k].rows = Accumulate(done[k].delivered)
        /\ heap[done[k].list] = done[k].rows
        /\ \A j \in 1..Len(done) : j # k => done[j].list # done[k].list

\* The same Query object ran twice, on different Dbs, the first run
\* returning rows and the second fewer.
C17_Witness ==
    /\ Len(done) = 2
    /\ done[1].q = done[2].q
    /\ done[1].d # done[2].d
    /\ Len(done[2].rows) < Len(done[1].rows)

\* C18: with runs on several threads against one Db, each run returns the
\* rows delivered to its own callback: none lost, none doubled, none of
\* another run (stated of runs whose scans succeeded).
C18_ThreadSafe ==
    \A k \in 1..Len(done) :
        \A j \in 1..Len(done) :
            (/\ done[k].d = done[j].d
             /\ done[k].t # done[j].t
             /\ done[k].status = OK
             /\ done[j].status = OK)
                => done[k].rows = Accumulate(done[k].delivered)

\* C18, the part of it that holds: runs of distinct Query objects do not
\* disturb each other, whatever the interleaving.
C18_DistinctQueries ==
    \A k \in 1..Len(done) :
        (/\ \A j \in 1..Len(done) : j # k => done[j].q # done[k].q
         /\ \A t \in Threads : thr[t].q # done[k].q)
            => done[k].rows = Accumulate(done[k].delivered)

====
